---- MODULE Spec2Model ----
(***************************************************************************)
(* The control loop of src/main/main.ino: the Animatable channels and      *)
(* their animation queues, the AudioQueue, the PushButton debouncer, the   *)
(* infrared dispatch (Roku table and custom packed protocol) and the idle  *)
(* breathing fallback.                                                     *)
(*                                                                         *)
(* Numbers.  A float of the program is a whole number of 1/Unit steps,     *)
(* with Unit = 30600 = lcm(255, 1800, 20): the joystick normalisation      *)
(* (raw - 127.5)/127.5, the breathing wave phase/1800 and the literals     *)
(* 0.05, 0.1, 0.2, 0.5, 0.95 are exact on that grid.  An interpolated      *)
(* value is rounded down to the grid; the rounding of single precision is  *)
(* not modelled.  The one float that is no number, the 0.0/0.0 of          *)
(* updateFrame, is the value NaN, and float comparisons with it are false. *)
(* Times are milliseconds of millis(); they stay far below 2^31, so the    *)
(* wrap of the unsigned long counter is out of the model's horizon.        *)
(* A 32-bit code of the infrared decoder is its four bytes, most           *)
(* significant first.                                                      *)
(***************************************************************************)
EXTENDS Integers, Sequences, FiniteSets, TLC

\* ------------------------------------------------------------------ floats
Unit == 120 * 255

NaN == Unit * Unit

IsNaN(x) == x = NaN

\* n/d as a float of the program (exact for the literals of the source)
Frac(n, d) == (n * Unit) \div d

FAdd(a, b) == IF IsNaN(a) \/ IsNaN(b) THEN NaN ELSE a + b

FSub(a, b) == IF IsNaN(a) \/ IsNaN(b) THEN NaN ELSE a - b

FAbs(a) == IF IsNaN(a) THEN NaN ELSE IF a < 0 THEN 0 - a ELSE a

FLe(a, b) == ~IsNaN(a) /\ ~IsNaN(b) /\ a <= b

FLt(a, b) == ~IsNaN(a) /\ ~IsNaN(b) /\ a < b

FMax(a, b) == IF a < b THEN b ELSE a

\* template clamp: both comparisons are false for NaN, which is returned
clamp(v, low, high) ==
  IF FLt(v, low) THEN low ELSE IF FLt(high, v) THEN high ELSE v

\* ------------------------------------------------------------- animations
\* Animation::linearToOver, linearToAt, linearBy, instantTo, constantOver.
\* A speed is the fraction num/den per millisecond.
linearToOver(value, duration) ==
  [type |-> "LinearToOver", millisDuration |-> duration, value |-> value]

linearToAt(value, num, den) ==
  [type |-> "LinearToAt", speed |-> <<num, den>>, value |-> value]

linearBy(value, duration) ==
  [type |-> "LinearBy", millisDuration |-> duration, value |-> value]

instantTo(value) == linearToOver(value, 0)

constantOver(duration) ==
  [type |-> "Constant", millisDuration |-> duration, value |-> 0]

\* constexpr float epsilon = 0.05 of queueAnimation
epsilon == Frac(5, 100)

\* the distance taken from the target alone
SpeedDurationFromZero(valueTarget, valueCurrent, speed, ub) ==
  (FAbs(valueTarget) * speed[2]) \div (speed[1] * Unit)

\* std::abs(animation.value - valueCurrent) / animation.speed, converted to
\* unsigned long: the quotient is truncated to whole milliseconds.  The
\* conversion of a NaN quotient is undefined; ub is the outcome the build
\* gives it.
SpeedDuration(valueTarget, valueCurrent, speed, ub) ==
  IF IsNaN(valueCurrent) THEN ub
  ELSE (FAbs(valueTarget - valueCurrent) * speed[2]) \div (speed[1] * Unit)

\* LinearBy: the clamped target, and whether the segment is dropped
ByTarget(valueCurrent, delta) == clamp(FAdd(valueCurrent, delta), 0, Unit)

\* < epsilon for <= epsilon
ByDroppedStrict(valueCurrent, delta) ==
  FLt(FAbs(FSub(valueCurrent, ByTarget(valueCurrent, delta))), epsilon)

ByDropped(valueCurrent, delta) ==
  FLe(FAbs(FSub(valueCurrent, ByTarget(valueCurrent, delta))), epsilon)

\* LinearBy resolved against the target of the last queued segment and
\* LinearToAt timed from it, as if resolved when the segment starts
ResolvedAgainstQueued(ch, animation, ub) ==
  LET q == ch.animationQueue
      from == IF q = <<>> THEN ch.value_ ELSE q[Len(q)].value
  IN  CASE animation.type = "LinearBy" ->
             [type |-> "LinearBy", millisDuration |-> animation.millisDuration,
              value |-> ByTarget(from, animation.value)]
        [] animation.type = "LinearToAt" ->
             [type |-> "LinearToAt",
              millisDuration |->
                SpeedDuration(animation.value, from, animation.speed, ub),
              value |-> animation.value]
        [] OTHER -> animation

\* The segment queueAnimation pushes for animation (LinearBy and LinearToAt
\* resolved against the channel's value of that moment).
Resolved(ch, animation, ub) ==
  CASE animation.type = "LinearBy" ->
         [type |-> "LinearBy", millisDuration |-> animation.millisDuration,
          value |-> ByTarget(ch.value_, animation.value)]
    [] animation.type = "LinearToAt" ->
         [type |-> "LinearToAt",
          millisDuration |->
            SpeedDuration(animation.value, ch.value_, animation.speed, ub),
          value |-> animation.value]
    [] OTHER -> animation

\* Animatable::queueAnimation at time t
queueAnimation(ch, animation, t, ub) ==
  LET based == IF ch.animationQueue = <<>>
               THEN [ch EXCEPT !.millisStart = t, !.valueStart = ch.value_]
               ELSE ch
  IN  IF animation.type = "LinearBy" /\ ByDropped(ch.value_, animation.value)
      THEN based
      ELSE [based EXCEPT
              !.animationQueue = Append(@, Resolved(ch, animation, ub))]

\* Animatable::queueAnimations: each animation in order
RECURSIVE queueAnimations(_, _, _, _)
queueAnimations(ch, animations, t, ub) ==
  IF animations = <<>> THEN ch
  ELSE queueAnimations(queueAnimation(ch, Head(animations), t, ub),
                       Tail(animations), t, ub)

\* Animatable::transitionToNextAnimation
transitionToNextAnimation(ch, millisNow) ==
  IF ch.animationQueue = <<>>
  THEN [ch EXCEPT !.millisStart = 0]
  ELSE [ch EXCEPT !.millisStart = millisNow, !.valueStart = ch.value_]

\* fraction >= 1.0 for fraction = float(elapsed) / float(duration):
\* x/0 is +inf for x > 0 and NaN, which compares false, for x = 0.
FractionDone(elapsed, duration) ==
  IF duration = 0 THEN elapsed > 0 ELSE elapsed >= duration

\* (1.0 - fraction) * valueStart + fraction * value, for fraction < 1
Interpolate(elapsed, duration, valueStart, value) ==
  IF duration = 0 \/ IsNaN(valueStart) \/ IsNaN(value) THEN NaN
  ELSE valueStart + ((value - valueStart) * elapsed) \div duration

\* interpolating from the current value instead of the baseline
updateFrameFromValue(ch, millisNow) ==
  IF ch.animationQueue = <<>> THEN ch
  ELSE
    LET animation == Head(ch.animationQueue)
        elapsed == millisNow - ch.millisStart
    IN  IF animation.type = "Constant"
        THEN IF elapsed >= animation.millisDuration
             THEN transitionToNextAnimation(
                    [ch EXCEPT !.animationQueue = Tail(@)], millisNow)
             ELSE ch
        ELSE IF FractionDone(elapsed, animation.millisDuration)
             THEN transitionToNextAnimation(
                    [ch EXCEPT !.value_ = animation.value,
                               !.animationQueue = Tail(@)], millisNow)
             ELSE [ch EXCEPT !.value_ =
                     Interpolate(elapsed, animation.millisDuration,
                                 ch.value_, animation.value)]

\* Animatable::updateFrame(millisNow) on a channel with work to do
updateFrame(ch, millisNow) ==
  IF ch.animationQueue = <<>> THEN ch
  ELSE
    LET animation == Head(ch.animationQueue)
        elapsed == millisNow - ch.millisStart
    IN  IF animation.type = "Constant"
        THEN IF elapsed >= animation.millisDuration
             THEN transitionToNextAnimation(
                    [ch EXCEPT !.animationQueue = Tail(@)], millisNow)
             ELSE ch
        ELSE IF FractionDone(elapsed, animation.millisDuration)
             THEN transitionToNextAnimation(
                    [ch EXCEPT !.value_ = animation.value,
                               !.animationQueue = Tail(@)], millisNow)
             ELSE [ch EXCEPT !.value_ =
                     Interpolate(elapsed, animation.millisDuration,
                                 ch.valueStart, animation.value)]

\* a write that also moves the interpolation baseline
setValueRebasing(ch, value) ==
  [ch EXCEPT !.value_ = value, !.valueStart = value]

\* a direct write that cancels what is queued
setValueCancelling(ch, value) ==
  [ch EXCEPT !.value_ = value, !.animationQueue = <<>>]

\* Animatable::setValue: the direct write
setValue(ch, value) == [ch EXCEPT !.value_ = value]

\* a low_threshold of 0.05
BiMotorOutputsNarrow(value) ==
  IF IsNaN(value) THEN { <<u, 0>> : u \in {0, 1000000} }
  ELSE IF FAbs(value) < Frac(5, 100) THEN { <<0, 0>> }
  ELSE IF value > 0 THEN { <<0, (value * 255) \div Unit>> }
  ELSE { <<((0 - value) * 255) \div Unit, 0>> }

\* without the dead zone below low_threshold
BiMotorOutputsNoDeadZone(value) ==
  IF IsNaN(value) THEN { <<u, 0>> : u \in {0, 1000000} }
  ELSE IF value > 0 THEN { <<0, (value * 255) \div Unit>> }
  ELSE { <<((0 - value) * 255) \div Unit, 0>> }

\* BiMotor::setValue: the duties <<value1, value2>> written to pin1_ and
\* pin2_ for a value; every write of value_ goes through setValue, so the
\* two outputs are always those of the current value.  For NaN both
\* comparisons are false and value1 is the conversion of a NaN to int,
\* which is undefined.
BiMotorOutputs(value) ==
  IF IsNaN(value) THEN { <<u, 0>> : u \in {0, 1000000} }
  ELSE IF FAbs(value) < Frac(1, 10) THEN { <<0, 0>> }
  ELSE IF value > 0 THEN { <<0, (value * 255) \div Unit>> }
  ELSE { <<((0 - value) * 255) \div Unit, 0>> }

\* ---------------------------------------------------------------- channels
\* The Animatable objects, in the order their constructors register them.
Channels ==
  {"head", "leftArm", "rightArm", "eyeTilter",
   "leftTread", "rightTread", "leftEye", "rightEye"}

\* The program's data as one record S:
\*   chan               the Animatable objects (value_, animationQueue,
\*                      millisStart, valueStart)
\*   queue              AudioQueue::queue
\*   played             the tracks handed to player_.playSpecified, in order
\*   millisIdleStart, breathingValue, index (of playNextAudio),
\*   millisLastArmMove  the statics of the sketch

\* isIdling with > for >=, and with a threshold of one second
isIdlingLate(S, t) == t - S.millisIdleStart > 10000

isIdlingEarly(S, t) == t - S.millisIdleStart >= 1000

\* bool isIdling()
isIdling(S, t) == t - S.millisIdleStart >= 10000

\* without the reset of breathingValue
resetIdleCountOnly(S, t) == [S EXCEPT !.millisIdleStart = t]

\* with the eyes written back to 1 on leaving Idle
resetIdleCountAndEyes(S, t) ==
  IF isIdling(S, t)
  THEN [S EXCEPT !.breathingValue = Unit,
                 !.chan["leftEye"] = setValue(@, Unit),
                 !.chan["rightEye"] = setValue(@, Unit),
                 !.millisIdleStart = t]
  ELSE [S EXCEPT !.millisIdleStart = t]

\* void resetIdleCount()
resetIdleCount(S, t) ==
  [S EXCEPT !.breathingValue = IF isIdling(S, t) THEN Unit ELSE @,
            !.millisIdleStart = t]

\* without the call of resetIdleCount
AnimatableUpdateFrameQuiet(S, millisNow) ==
  [S EXCEPT !.chan = [c \in Channels |-> updateFrame(S.chan[c], millisNow)]]

\* static Animatable::updateFrame(): every channel with a queued animation
\* resets the idle count and advances
AnimatableUpdateFrame(S, millisNow) ==
  IF \A c \in Channels : S.chan[c].animationQueue = <<>> THEN S
  ELSE [resetIdleCount(S, millisNow) EXCEPT
          !.chan = [c \in Channels |-> updateFrame(S.chan[c], millisNow)]]

\* AudioQueue::queueDelay and queuePlay
queueDelay(S, duration, t) ==
  [S EXCEPT !.queue =
     Append(@, [tag |-> "Delay", millisStart |-> t, duration |-> duration])]

\* the entry pushed at the front of the queue
queuePlayAtFront(S, index, t) ==
  [S EXCEPT !.queue =
     <<[tag |-> "Play", millisStart |-> t, index |-> index]>> \o @]

queuePlay(S, index, t) ==
  [S EXCEPT !.queue =
     Append(@, [tag |-> "Play", millisStart |-> t, index |-> index])]

\* without the call of resetIdleCount
AudioUpdateFrameQuiet(S, millisNow) ==
  IF S.queue = <<>> THEN S
  ELSE
    LET entry == Head(S.queue)
    IN  IF entry.tag = "Delay"
        THEN IF millisNow > entry.millisStart + entry.duration
             THEN [S EXCEPT !.queue = Tail(@)]
             ELSE S
        ELSE [S EXCEPT !.queue = Tail(@),
                       !.played = Append(@, entry.index)]

\* the wait of a Delay measured from the moment it reaches the front
AudioUpdateFrameFromFront(S, millisNow) ==
  IF S.queue = <<>> THEN S
  ELSE
    LET S1 == resetIdleCount(S, millisNow)
        entry == Head(S.queue)
        rest == [i \in 1..(Len(S.queue) - 1) |->
                   IF i = 1 THEN [S.queue[2] EXCEPT !.millisStart = millisNow]
                   ELSE S.queue[i + 1]]
    IN  IF entry.tag = "Delay"
        THEN IF millisNow > entry.millisStart + entry.duration
             THEN [S1 EXCEPT !.queue = rest]
             ELSE S1
        ELSE [S1 EXCEPT !.queue = rest,
                        !.played = Append(@, entry.index)]

\* AudioQueue::updateFrame(millisNow)
AudioUpdateFrame(S, millisNow) ==
  IF S.queue = <<>> THEN S
  ELSE
    LET S1 == resetIdleCount(S, millisNow)
        entry == Head(S.queue)
    IN  IF entry.tag = "Delay"
        THEN IF millisNow > entry.millisStart + entry.duration
             THEN [S1 EXCEPT !.queue = Tail(@)]
             ELSE S1
        ELSE [S1 EXCEPT !.queue = Tail(@),
                        !.played = Append(@, entry.index)]

\* ---------------------------------------------------------------- commands
Enqueue(S, c, animation, t, ub) ==
  [S EXCEPT !.chan[c] = queueAnimation(@, animation, t, ub)]

EnqueueAll(S, c, animations, t, ub) ==
  [S EXCEPT !.chan[c] = queueAnimations(@, animations, t, ub)]

\* both treads, as forward(), spinLeft(), ... do
Treads(S, left, right, t, ub) ==
  Enqueue(Enqueue(S, "leftTread", linearToOver(left, 200), t, ub),
          "rightTread", linearToOver(right, 200), t, ub)

blinkAnimation ==
  << linearToOver(0, 20), constantOver(100), linearToOver(Unit, 20),
     constantOver(300), linearToOver(0, 20), constantOver(100),
     linearToOver(Unit, 20) >>

demo(S, t, ub) ==
  LET headAnimation ==
        << linearToAt(Frac(1, 2), 5, 10000), constantOver(500),
           linearToOver(0, 1000), linearToOver(Unit, 2000),
           linearToOver(Frac(1, 2), 1000) >>
      eyeAnimation == << instantTo(Unit), constantOver(4500) >> \o blinkAnimation
      S1 == EnqueueAll(S, "head", headAnimation, t, ub)
      S2 == EnqueueAll(S1, "leftEye", eyeAnimation, t, ub)
      S3 == EnqueueAll(S2, "rightEye", eyeAnimation, t, ub)
  IN  queuePlay(queueDelay(S3, 5000, t), 2, t)

playNextAudio(S, t) ==
  LET next == IF S.index + 1 > 10 THEN 1 ELSE S.index + 1
  IN  queuePlay(queueDelay([S EXCEPT !.index = next], 100, t), next, t)

leftArmMove(S, value, t, ub) == Enqueue(S, "leftArm", linearBy(value, 100), t, ub)

rightArmMove(S, value, t, ub) == Enqueue(S, "rightArm", linearBy(value, 100), t, ub)

breathe(S, t, ub) ==
  LET animations == << linearToOver(0, 2000), linearToOver(Unit, 2000) >>
  IN  EnqueueAll(EnqueueAll(S, "leftEye", animations, t, ub),
                 "rightEye", animations, t, ub)

blinkTwice(S, t, ub) ==
  EnqueueAll(EnqueueAll(S, "leftEye", blinkAnimation, t, ub),
             "rightEye", blinkAnimation, t, ub)

tiltEye(S, t, ub) ==
  EnqueueAll(S, "eyeTilter",
             << linearToOver(Unit, 0), linearToOver(Unit, 1600),
                linearToOver(0, 0) >>, t, ub)

lookAround(S, t, ub) ==
  LET animations1 ==
        << linearToOver(0, 700), linearToOver(Unit, 1400),
           linearToOver(Frac(1, 2), 700) >>
      animations2 ==
        << linearToOver(Unit, 0), constantOver(3000) >> \o blinkAnimation
      S1 == EnqueueAll(S, "head", animations1, t, ub)
      S2 == EnqueueAll(S1, "leftEye", animations2, t, ub)
  IN  EnqueueAll(S2, "rightEye", animations2, t, ub)

\* The switch of loop() over the Roku codes; a code outside the table
\* matches no case.
Roku(S, code, t, ub) ==
  CASE code = <<232, 23, 199, 234>> -> demo(S, t, ub)
    [] code = <<153, 102, 199, 234>> -> lookAround(S, t, ub)
    [] code = <<252, 3, 199, 234>> ->
         Enqueue(S, "head", linearToAt(Frac(1, 2), 5, 10000), t, ub)
    [] code = <<230, 25, 199, 234>> -> Treads(S, Unit, Unit, t, ub)
    [] code = <<204, 51, 199, 234>> -> Treads(S, 0 - Unit, 0 - Unit, t, ub)
    [] code = <<225, 30, 199, 234>> -> Treads(S, 0 - Unit, Unit, t, ub)
    [] code = <<210, 45, 199, 234>> -> Treads(S, Unit, 0 - Unit, t, ub)
    [] code = <<213, 42, 199, 234>> -> Treads(S, 0, 0, t, ub)
    [] code = <<135, 120, 199, 234>> -> blinkTwice(S, t, ub)
    [] code = <<157, 98, 199, 234>> -> tiltEye(S, t, ub)
    [] code = <<158, 97, 199, 234>> -> breathe(S, t, ub)
    [] code = <<203, 52, 199, 234>> ->
         Enqueue(S, "head", linearToAt(0, 5, 10000), t, ub)
    [] code = <<179, 76, 199, 234>> -> playNextAudio(S, t)
    [] code = <<170, 85, 199, 234>> ->
         Enqueue(S, "head", linearToAt(Unit, 5, 10000), t, ub)
    [] code = <<173, 82, 199, 234>> -> Treads(S, 0, Unit, t, ub)
    [] code = <<178, 77, 199, 234>> -> Treads(S, 0, 0 - Unit, t, ub)
    [] code = <<180, 75, 199, 234>> -> Treads(S, Unit, 0, t, ub)
    [] code = <<243, 12, 199, 234>> -> Treads(S, 0 - Unit, 0, t, ub)
    [] code = <<247, 8, 199, 234>> ->
         Enqueue(S, "leftArm", linearToAt(Unit, 1, 1000), t, ub)
    [] code = <<177, 78, 199, 234>> ->
         Enqueue(S, "leftArm", linearToAt(0, 1, 1000), t, ub)
    [] code = <<169, 86, 199, 234>> ->
         Enqueue(S, "rightArm", linearToAt(Unit, 1, 1000), t, ub)
    [] code = <<249, 6, 199, 234>> ->
         Enqueue(S, "rightArm", linearToAt(0, 1, 1000), t, ub)
    [] code = <<240, 15, 199, 234>> -> queuePlay(S, 2, t)
    [] code = <<239, 16, 199, 234>> -> queuePlay(S, 3, t)
    [] code = <<223, 32, 199, 234>> -> queuePlay(S, 1, t)
    [] OTHER -> S

\* ------------------------------------------------- custom packed protocol
\* (raw - 127.5) / 127.5
Normalize(raw) == ((2 * raw - 255) * Unit) \div 255

\* v >= 0 ? 1 : -1
Sign(v) == IF v >= 0 THEN 1 ELSE 0 - 1

\* type 2: the tread values computed from the normalized stick position
TreadLeft(x, y) ==
  IF Sign(x) = Sign(y)
  THEN Sign(y) * FMax(FAbs(x), FAbs(y))
  ELSE Sign(y) * (FAbs(y) - FAbs(x))

\* the sign of x for the sign of y in the second branch
TreadRightBySignOfX(x, y) ==
  IF Sign(x) = Sign(y)
  THEN Sign(y) * (FAbs(y) - FAbs(x))
  ELSE Sign(x) * FMax(FAbs(x), FAbs(y))

TreadRight(x, y) ==
  IF Sign(x) = Sign(y)
  THEN Sign(y) * (FAbs(y) - FAbs(x))
  ELSE Sign(y) * FMax(FAbs(x), FAbs(y))

LeftJoystick(S, xRaw, yRaw) ==
  LET x == Normalize(xRaw)
      y == Normalize(yRaw)
  IN  [S EXCEPT !.chan["leftTread"] = setValue(@, TreadLeft(x, y)),
                !.chan["rightTread"] = setValue(@, TreadRight(x, y))]

\* type 3: thresholdRight = 0.5, thresholdLeft = -0.5
\* compared with thresholdLeft for thresholdRight
moveLeftOfLeft(x) == x <= 0 - Frac(1, 2)

moveLeft(x) == x <= Frac(1, 2)

moveRight(x) == x >= 0 - Frac(1, 2)

\* nothing, a little, or a lot
moveAmount(y) ==
  IF FAbs(y) > Frac(95, 100) THEN Frac(2, 10) * Sign(y)
  ELSE IF FAbs(y) > Frac(1, 10) THEN Frac(1, 10) * Sign(y)
  ELSE 0

\* 50 for 500
ArmRateLimitedShort(S, millisNow) == millisNow - S.millisLastArmMove < 50

\* if (millisNow - millisLastArmMove < 500) break;
ArmRateLimited(S, millisNow) == millisNow - S.millisLastArmMove < 500

RightJoystick(S, xRaw, yRaw, millisNow, ub) ==
  IF ArmRateLimited(S, millisNow) THEN S
  ELSE
    LET x == Normalize(xRaw)
        amount == moveAmount(Normalize(yRaw))
        S1 == IF amount # 0 /\ moveLeft(x)
              THEN [leftArmMove(S, amount, millisNow, ub) EXCEPT
                      !.millisLastArmMove = millisNow]
              ELSE S
    IN  IF amount # 0 /\ moveRight(x)
        THEN [rightArmMove(S1, amount, millisNow, ub) EXCEPT
                !.millisLastArmMove = millisNow]
        ELSE S1

\* the button case as the default of the switch
CustomDefaultDemo(S, code, t, ub) ==
  CASE code[1] = 2 -> LeftJoystick(S, code[3], code[4])
    [] code[1] = 3 -> RightJoystick(S, code[3], code[4], t, ub)
    [] OTHER -> demo(S, t, ub)

\* the button case acting on key 0 alone
CustomByKey(S, code, t, ub) ==
  CASE code[1] = 2 -> LeftJoystick(S, code[3], code[4])
    [] code[1] = 3 -> RightJoystick(S, code[3], code[4], t, ub)
    [] code[1] = 1 -> IF code[3] = 0 /\ code[4] = 0 THEN demo(S, t, ub) ELSE S
    [] OTHER -> S

\* type = (code & 0xFF000000) >> 24, value = code & 0x0000FFFF,
\* xRaw = (value & 0xFF00) >> 8, yRaw = value & 0x00FF
Custom(S, code, t, ub) ==
  CASE code[1] = 2 -> LeftJoystick(S, code[3], code[4])
    [] code[1] = 3 -> RightJoystick(S, code[3], code[4], t, ub)
    [] code[1] = 1 -> demo(S, t, ub)
    [] OTHER -> S

\* the idle count reset by the packets of the two remotes only
DispatchResetIfRouted(S, protocol, code, t, ub) ==
  CASE protocol = "NEC" -> Roku(resetIdleCount(S, t), code, t, ub)
    [] protocol \in {"NEC2", "ONKYO"} ->
         Custom(resetIdleCount(S, t), code, t, ub)
    [] OTHER -> S

\* ONKYO routed to the Roku table
DispatchOnkyoAsRoku(S, protocol, code, t, ub) ==
  LET S1 == resetIdleCount(S, t)
  IN  CASE protocol \in {"NEC", "ONKYO"} -> Roku(S1, code, t, ub)
        [] protocol = "NEC2" -> Custom(S1, code, t, ub)
        [] OTHER -> S1

\* The body of if (IrReceiver.decode()) { ... }
Dispatch(S, protocol, code, t, ub) ==
  LET S1 == resetIdleCount(S, t)
  IN  CASE protocol = "NEC" -> Roku(S1, code, t, ub)
        [] protocol \in {"NEC2", "ONKYO"} -> Custom(S1, code, t, ub)
        [] OTHER -> S1

\* ------------------------------------------------------------ idle fallback
\* the first branch of the wave alone
BreathingDown(idleDuration) == Unit - (2 * idleDuration * Unit) \div 3600

\* constexpr unsigned long breathingCycle = 3600, and the triangle wave
Breathing(idleDuration) ==
  IF 2 * idleDuration < 3600
  THEN Unit - (2 * idleDuration * Unit) \div 3600
  ELSE (2 * idleDuration * Unit) \div 3600 - Unit

\* the idle override without the writes to the treads
BreathingOnly(S, t) ==
  IF ~isIdling(S, t) THEN S
  ELSE
    LET value == Breathing((t - S.millisIdleStart) % 3600)
    IN  [S EXCEPT !.breathingValue = value,
                  !.chan["leftEye"] = setValue(@, value),
                  !.chan["rightEye"] = setValue(@, value)]

\* the phase of the wave counted from the moment Idle is entered
IdleFallbackFromEntry(S, t) ==
  IF ~isIdling(S, t) THEN S
  ELSE
    LET value == Breathing((t - S.millisIdleStart - 10000) % 3600)
    IN  [S EXCEPT !.chan["leftTread"] = setValue(@, 0),
                  !.chan["rightTread"] = setValue(@, 0),
                  !.breathingValue = value,
                  !.chan["leftEye"] = setValue(@, value),
                  !.chan["rightEye"] = setValue(@, value)]

\* if (isIdling()) { ... } at the end of loop()
IdleFallback(S, t) ==
  IF ~isIdling(S, t) THEN S
  ELSE
    LET value == Breathing((t - S.millisIdleStart) % 3600)
    IN  [S EXCEPT !.chan["leftTread"] = setValue(@, 0),
                  !.chan["rightTread"] = setValue(@, 0),
                  !.breathingValue = value,
                  !.chan["leftEye"] = setValue(@, value),
                  !.chan["rightEye"] = setValue(@, value)]

\* -------------------------------------------------------------------- state
VARIABLES
  now,                \* millis()
  pc,                 \* the statement of loop() to run next
  chan,               \* the Animatable objects
  queue,              \* AudioQueue::queue
  played,             \* tracks given to the audio player, in order
  millisIdleStart,
  breathingValue,
  index,              \* static int index of playNextAudio
  millisLastArmMove,
  last_,              \* PushButton::last_
  released_,          \* PushButton::released_
  decoded,            \* the locals protocol and code of loop(), while in scope
  pin,                \* level of the push-button pin (the environment)
  presses,            \* times at which the button was pressed down
  triggers,           \* for each true of isPushed: the press it saw, the time
  received,           \* number of packets decoded so far
  held                \* the tread values of the last type 2 packet, while no
                      \* other packet or button trigger followed; else <<>>

data == <<chan, queue, played, millisIdleStart, breathingValue, index,
          millisLastArmMove>>

button == <<last_, released_>>

world == <<pin, presses>>

vars == <<now, pc, data, button, decoded, world, triggers, received, held>>

\* -------------------------------------------------------------------- bounds
\* Packets decoded in one run (MaxStickPackets: where every stick position
\* is tried), and presses of the button
MaxPackets == 2

MaxStickPackets == 1

MaxPresses == 2

\* What the conversion of a NaN to unsigned long may give
UndefinedDurations == {0, 1000000}

\* The outcomes of the conversions a handler may make now: the conversion is
\* undefined only where the value of a channel is NaN
Undefined ==
  IF \E c \in DOMAIN chan : IsNaN(chan[c].value_)
  THEN UndefinedDurations ELSE {0}

\* delay(300); delay(50); delay(50) of setup()
SetupMillis == 300 + 50 + 50

\* ---------------------------------------------------------------- the loop
Data ==
  [chan |-> chan, queue |-> queue, played |-> played,
   millisIdleStart |-> millisIdleStart, breathingValue |-> breathingValue,
   index |-> index, millisLastArmMove |-> millisLastArmMove]

Store(S) ==
  /\ chan' = S.chan
  /\ queue' = S.queue
  /\ played' = S.played
  /\ millisIdleStart' = S.millisIdleStart
  /\ breathingValue' = S.breathingValue
  /\ index' = S.index
  /\ millisLastArmMove' = S.millisLastArmMove

\* decode() returned false, or the locals are out of scope
NoPacket == [protocol |-> "none", code |-> <<0, 0, 0, 0>>]

\* The state setup() leaves: the initial setValue calls, track 2 played,
\* resetIdleCount() at the end.
Init ==
  /\ now = SetupMillis
  /\ pc = "updateFrame"
  /\ chan = [c \in Channels |->
               [value_ |-> CASE c = "head" -> Frac(1, 2)
                             [] c \in {"leftEye", "rightEye"} -> Unit
                             [] OTHER -> 0,
                animationQueue |-> <<>>, millisStart |-> 0, valueStart |-> 0]]
  /\ queue = <<>>
  /\ played = <<2>>
  /\ millisIdleStart = SetupMillis
  /\ breathingValue = Unit
  /\ index = 2
  /\ millisLastArmMove = 0
  /\ last_ = 0
  /\ released_ = TRUE
  /\ decoded = NoPacket
  /\ pin = "HIGH"
  /\ presses = <<>>
  /\ triggers = <<>>
  /\ received = 0
  /\ held = <<>>

\* Time passes, between any two statements of loop(); the clock is observed
\* at the instants Times
Advance(Times) ==
  \E t \in Times :
    /\ t > now
    /\ now' = t
    /\ UNCHANGED <<pc, data, button, decoded, world, triggers, received, held>>

\* Animatable::updateFrame();
StepUpdateFrame ==
  /\ pc = "updateFrame"
  /\ Store(AnimatableUpdateFrame(Data, now))
  /\ pc' = "audio"
  /\ UNCHANGED <<now, button, decoded, world, triggers, received, held>>

\* AudioQueue::updateFrame();
StepAudio ==
  /\ pc = "audio"
  /\ Store(AudioUpdateFrame(Data, now))
  /\ pc' = "button"
  /\ UNCHANGED <<now, button, decoded, world, triggers, received, held>>

\* a debounceThreshold of 10
ScansShort(t) == t - last_ >= 10

\* PushButton::isPushed(): whether this call scans the pin, and its result
Scans(t) == t - last_ >= 100

\* without the released_ flag
isPushedWhileHeld(t) == Scans(t) /\ pin = "LOW"

isPushed(t) == Scans(t) /\ pin = "LOW" /\ released_

\* if (pushButton.isPushed()) { resetIdleCount(); demo(); return; }
StepButton ==
  /\ pc = "button"
  /\ last_' = IF Scans(now) THEN now ELSE last_
  /\ released_' = IF ~Scans(now) THEN released_
                  ELSE IF pin = "LOW" THEN FALSE ELSE TRUE
  /\ triggers' = IF isPushed(now)
                 THEN Append(triggers, [press |-> Len(presses), at |-> now])
                 ELSE triggers
  /\ \E ub \in Undefined :
       Store(IF isPushed(now)
             THEN demo(resetIdleCount(Data, now), now, ub)
             ELSE Data)
  /\ pc' = IF isPushed(now) THEN "updateFrame" ELSE "ir"
  /\ held' = IF isPushed(now) THEN <<>> ELSE held
  /\ UNCHANGED <<now, decoded, world, received>>

IsLeftJoystick(packet) ==
  packet.protocol \in {"NEC2", "ONKYO"} /\ packet.code[1] = 2

\* if (IrReceiver.decode()) { ... }: decode() is false (NoPacket) or gives
\* one of Packets
StepIr(Packets, Max) ==
  /\ pc = "ir"
  /\ \E packet \in Packets \cup {NoPacket}, ub \in Undefined :
       IF packet = NoPacket
       THEN UNCHANGED <<data, decoded, received, held>>
       ELSE /\ received < Max
            /\ received' = received + 1
            /\ decoded' = packet
            /\ Store(Dispatch(Data, packet.protocol, packet.code, now, ub))
            /\ held' = IF IsLeftJoystick(packet)
                       THEN << TreadLeft(Normalize(packet.code[3]),
                                         Normalize(packet.code[4])),
                               TreadRight(Normalize(packet.code[3]),
                                          Normalize(packet.code[4])) >>
                       ELSE <<>>
  /\ pc' = "idle"
  /\ UNCHANGED <<now, button, world, triggers>>

\* if (isIdling()) { ... }
StepIdle ==
  /\ pc = "idle"
  /\ Store(IdleFallback(Data, now))
  /\ pc' = "updateFrame"
  /\ decoded' = NoPacket
  /\ UNCHANGED <<now, button, world, triggers, received, held>>

\* The environment presses and releases the button
Press ==
  /\ pin = "HIGH"
  /\ Len(presses) < MaxPresses
  /\ pin' = "LOW"
  /\ presses' = Append(presses, now)
  /\ UNCHANGED <<now, pc, data, button, decoded, triggers, received, held>>

Release ==
  /\ pin = "LOW"
  /\ pin' = "HIGH"
  /\ UNCHANGED <<now, pc, data, button, decoded, presses, triggers, received, held>>

Loop(Packets, Max) ==
  StepUpdateFrame \/ StepAudio \/ StepButton \/ StepIr(Packets, Max)
    \/ StepIdle

\* ------------------------------------------------------------ specifications
Packet(protocol, b3, b2, b1, b0) ==
  [protocol |-> protocol, code |-> <<b3, b2, b1, b0>>]

\* Stick bytes: the ends, the centre, and both sides of every threshold of
\* the arm mapping (|y| > 0.95, |y| > 0.1, x <= 0.5, x >= -0.5); the set is
\* closed under 255 - b, so both diagonals of the tread mapping are in it.
Bytes == {0, 6, 7, 63, 64, 114, 115, 127, 128, 140, 141, 191, 192, 248, 249, 255}

\* Treads and the idle fallback: the Roku Up key and three stick positions
TreadPackets ==
  { Packet("NEC", 230, 25, 199, 234),
    Packet("NEC2", 2, 0, 255, 255),
    Packet("ONKYO", 2, 0, 64, 200),
    Packet("NEC2", 2, 0, 128, 127) }

TreadTimes == {500, 600, 5400, 10399, 10400, 10500, 20500, 20600}

Next == Advance(TreadTimes) \/ Loop(TreadPackets, MaxPackets)

Spec == Init /\ [][Next]_vars

\* Queued animations: Roku Back (lookAround), Home (lookStraight), Rewind
\* (lookLeft), Sleep (tiltEye)
AnimPackets ==
  { Packet("NEC", 153, 102, 199, 234),
    Packet("NEC", 252, 3, 199, 234),
    Packet("NEC", 203, 52, 199, 234),
    Packet("NEC", 157, 98, 199, 234) }

AnimTimes == {401, 500, 1100, 1101, 2000, 2500, 3000}

NextAnim == Advance(AnimTimes) \/ Loop(AnimPackets, MaxPackets)

SpecAnim == Init /\ [][NextAnim]_vars

\* The arms: every position of the right stick over Bytes, and Roku Vudu
\* (leftArmUp)
ArmPackets ==
  { Packet("NEC2", 3, 0, xRaw, yRaw) :
      xRaw \in {0, 63, 64, 127, 128, 191, 192, 255},
      yRaw \in Bytes \ {63, 64, 191, 192} }
    \cup { Packet("NEC", 247, 8, 199, 234) }

ArmTimes == {500, 600, 999, 1000, 1350}

NextArm == Advance(ArmTimes) \/ Loop(ArmPackets, MaxPackets)

SpecArm == Init /\ [][NextArm]_vars

\* The treads: every position of the left stick over Bytes under NEC2, the
\* four corners under ONKYO
StickPackets ==
  { Packet("NEC2", 2, 0, xRaw, yRaw) : xRaw \in Bytes, yRaw \in Bytes }
    \cup { Packet("ONKYO", 2, 0, xRaw, yRaw) :
              xRaw \in {0, 255}, yRaw \in {0, 255} }

StickTimes == {500, 10400}

NextStick == Advance(StickTimes) \/ Loop(StickPackets, MaxStickPackets)

SpecStick == Init /\ [][NextStick]_vars

\* The push-button: presses and releases at any of the observed instants
ButtonTimes == {450, 499, 500, 550, 600, 700}

NextButton == Advance(ButtonTimes) \/ Loop({}, 0) \/ Press \/ Release

SpecButton == Init /\ [][NextButton]_vars

\* The audio queue: Roku Play/Pause (playNextAudio), Vol Up and Mute
\* (queuePlay of tracks 2 and 1), and Roku Right (spinRight) for a channel
\* at work beside it
AudioPackets ==
  { Packet("NEC", 179, 76, 199, 234), Packet("NEC", 240, 15, 199, 234),
    Packet("NEC", 223, 32, 199, 234), Packet("NEC", 210, 45, 199, 234) }

AudioTimes == {450, 500, 501, 600}

NextAudio == Advance(AudioTimes) \/ Loop(AudioPackets, MaxPackets)

SpecAudio == Init /\ [][NextAudio]_vars

\* The case labels of switch (code), protocol NEC
RokuCodes ==
  { <<c[1], c[2], 199, 234>> :
      c \in { <<135, 120>>, <<153, 102>>, <<157, 98>>, <<158, 97>>,
               <<169, 86>>, <<170, 85>>, <<173, 82>>, <<177, 78>>,
               <<178, 77>>, <<179, 76>>, <<180, 75>>, <<203, 52>>,
               <<204, 51>>, <<210, 45>>, <<213, 42>>, <<223, 32>>,
               <<225, 30>>, <<230, 25>>, <<232, 23>>, <<239, 16>>,
               <<240, 15>>, <<243, 12>>, <<247, 8>>, <<249, 6>>,
               <<252, 3>> } }

\* Input the dispatch has no case for: NEC codes off the table (one bit
\* off Power, Power with its bytes swapped, a code that would be a stick
\* packet), custom packets of types 0, 4, 232 and 255, and a table code
\* under a third protocol; with Roku Power (demo) for queues at work
UnknownPackets ==
  { Packet("NEC", 232, 23, 199, 235), Packet("NEC", 23, 232, 234, 199),
    Packet("NEC", 2, 0, 255, 255),
    Packet("NEC2", 0, 0, 0, 0), Packet("NEC2", 4, 0, 255, 255),
    Packet("NEC2", 232, 23, 199, 234), Packet("ONKYO", 255, 255, 255, 255),
    Packet("SONY", 232, 23, 199, 234),
    Packet("NEC", 232, 23, 199, 234) }

UnknownTimes == {500, 10400, 10500}

NextUnknown == Advance(UnknownTimes) \/ Loop(UnknownPackets, MaxPackets)

SpecUnknown == Init /\ [][NextUnknown]_vars

\* Leaving Idle: the button, Roku Repeat (blinkTwice), and custom packets of
\* the three types, after 10 s and more without activity
WakePackets ==
  { Packet("NEC", 135, 120, 199, 234), Packet("NEC2", 1, 0, 0, 0),
    Packet("NEC2", 2, 0, 255, 255), Packet("NEC2", 3, 0, 127, 255) }

WakeTimes == {10400, 10500}

NextWake ==
  Advance(WakeTimes) \/ Loop(WakePackets, MaxStickPackets) \/ Press
    \/ Release

SpecWake == Init /\ [][NextWake]_vars

\* The button packets of the custom remote, type 1, with every payload of
\* Payloads under both protocols, and Roku Back (lookAround) for a second
\* state to handle them from
Payloads ==
  { <<reserved, high, low>> :
      reserved \in {0, 255}, high \in {0, 127, 255}, low \in {0, 127, 255} }

DemoPackets ==
  { Packet(protocol, 1, p[1], p[2], p[3]) :
      protocol \in {"NEC2", "ONKYO"}, p \in Payloads }
    \cup { Packet("NEC", 153, 102, 199, 234) }

DemoTimes == {500, 10400}

NextDemo == Advance(DemoTimes) \/ Loop(DemoPackets, MaxPackets)

SpecDemo == Init /\ [][NextDemo]_vars

\* The two identifiers of the custom remote: packets of the types 1, 2, 3
\* and a packet whose code is the Roku Power code, each under NEC2 and
\* under ONKYO, and Roku Power itself
ProtocolCodes ==
  { <<1, 0, 0, 0>>, <<2, 0, 255, 0>>, <<3, 0, 127, 255>>,
    <<232, 23, 199, 234>> }

ProtocolPackets ==
  { [protocol |-> protocol, code |-> code] :
      protocol \in {"NEC2", "ONKYO"}, code \in ProtocolCodes }
    \cup { [protocol |-> "NEC", code |-> <<232, 23, 199, 234>>] }

ProtocolTimes == {500, 1000, 10400}

NextProtocol == Advance(ProtocolTimes) \/ Loop(ProtocolPackets, MaxPackets)

SpecProtocol == Init /\ [][NextProtocol]_vars

\* The breathing wave: no input, and the time since setup() elapses in one
\* stretch of 10000 ms and up to BreathSpan ms more, so that the idle check
\* runs at every phase of the wave
BreathSpan == 3600

BreathTimes == { SetupMillis + 10000 + d : d \in 0..BreathSpan }

Elapse(Times) == now = SetupMillis /\ Advance(Times)

NextBreath == Elapse(BreathTimes) \/ Loop({}, 0)

SpecBreath == Init /\ [][NextBreath]_vars

\* An arm raised by Roku Vudu (leftArmUp, 1000 ms from 0) and stepped by the
\* right stick while it rises, observed until the step has run
ResolvePackets ==
  { Packet("NEC2", 3, 0, xRaw, yRaw) :
      xRaw \in {63, 192}, yRaw \in {0, 114, 141, 255} }
    \cup { Packet("NEC", 247, 8, 199, 234) }

ResolveTimes == {500, 1000, 1400, 1450, 1500}

NextResolve == Advance(ResolveTimes) \/ Loop(ResolvePackets, MaxPackets)

SpecResolve == Init /\ [][NextResolve]_vars

\* Queues under every kind of operation: Roku Repeat (blinkTwice) and Up
\* (forward) and the custom button (demo) enqueue, the left stick writes the
\* treads directly, and the idle override writes the treads and the eyes
QueuePackets ==
  { Packet("NEC", 135, 120, 199, 234), Packet("NEC", 230, 25, 199, 234),
    Packet("NEC2", 1, 0, 0, 0), Packet("NEC2", 2, 0, 255, 255) }

QueueTimes == {420, 500, 600, 10400, 10420}

NextQueue == Advance(QueueTimes) \/ Loop(QueuePackets, MaxPackets)

SpecQueue == Init /\ [][NextQueue]_vars

\* Iterations of loop() of less than 10000 ms: an iteration begins at any
\* later instant of IdleTimes, and one that begins at an instant of IdleBase
\* may take 9999 ms, spent before any one of its statements; with Roku
\* Repeat (blinkTwice), Play/Pause (playNextAudio), the left stick and the
\* button (demo)
IdlePackets ==
  { Packet("NEC", 135, 120, 199, 234), Packet("NEC", 179, 76, 199, 234),
    Packet("NEC2", 2, 0, 255, 255) }

IdleBase == {SetupMillis, 500}

IdleTimes == IdleBase \cup { t + 9999 : t \in IdleBase }

Between(Times) == pc = "updateFrame" /\ Advance(Times)

Within(Base, millis) ==
  /\ pc # "updateFrame"
  /\ now \in Base
  /\ now' = now + millis
  /\ UNCHANGED <<pc, data, button, decoded, world, triggers, received, held>>

NextIdle ==
  Between(IdleTimes) \/ Within(IdleBase, 9999)
    \/ Loop(IdlePackets, MaxStickPackets) \/ Press \/ Release

SpecIdle == Init /\ [][NextIdle]_vars

\* The loop kept running: every iteration of loop() that reaches its idle
\* check takes Pace ms, up to the instant Horizon where the observation
\* ends; input (Roku Up and Play/Pause, the left stick, presses of the
\* button) arrives up to the instant LastInput only
Pace == 500

LastInput == 900

Horizon == 40400

LivePackets ==
  { Packet("NEC", 230, 25, 199, 234), Packet("NEC", 179, 76, 199, 234),
    Packet("NEC2", 2, 0, 255, 255) }

\* if (isIdling()) { ... } and the end of the iteration, millis ms later
StepIdleTaking(millis) ==
  /\ pc = "idle"
  /\ Store(IdleFallback(Data, now))
  /\ pc' = "updateFrame"
  /\ decoded' = NoPacket
  /\ now' = IF now + millis <= Horizon THEN now + millis ELSE now
  /\ UNCHANGED <<button, world, triggers, received, held>>

LoopTaking(millis) ==
  StepUpdateFrame \/ StepAudio \/ StepButton
    \/ StepIr(LivePackets, IF now <= LastInput THEN MaxStickPackets ELSE 0)
    \/ StepIdleTaking(millis)

PressEarly == now <= LastInput /\ Press

NextLive == LoopTaking(Pace) \/ PressEarly \/ Release

SpecLive == Init /\ [][NextLive]_vars /\ WF_vars(LoopTaking(Pace))

\* Audio delays: the custom button (demo: Delay(5000), Play(2)) and Roku
\* Play/Pause (playNextAudio: Delay(100), Play), observed around the expiry
\* of the delays
DelayPackets ==
  { Packet("NEC2", 1, 0, 0, 0), Packet("NEC", 179, 76, 199, 234) }

DelayTimes == {450, 500, 501, 5400, 5401, 5450, 5451}

NextDelay == Advance(DelayTimes) \/ Loop(DelayPackets, MaxPackets)

SpecDelay == Init /\ [][NextDelay]_vars

\* Ignored packets: a Roku code outside the table, a custom packet of type
\* 4, the Power code under a third protocol, and the right stick pushed up
\* (moving both arms, or suppressed by the rate limit), Active and Idle
IgnoredPackets ==
  { Packet("NEC", 232, 23, 199, 235), Packet("NEC2", 4, 0, 255, 255),
    Packet("SONY", 232, 23, 199, 234), Packet("ONKYO", 3, 0, 127, 255) }

IgnoredTimes == {450, 500, 950, 10500, 10950}

NextIgnored == Advance(IgnoredTimes) \/ Loop(IgnoredPackets, MaxPackets)

SpecIgnored == Init /\ [][NextIgnored]_vars

\* ------------------------------------------------------------------- claims
Left == chan["leftTread"].value_

Right == chan["rightTread"].value_

TreadsNeutral == Left = 0 /\ Right = 0

TreadsQuiet ==
  /\ chan["leftTread"].animationQueue = <<>>
  /\ chan["rightTread"].animationQueue = <<>>

\* now - lastActivity >= 10000 ms
IdleNow == now - millisIdleStart >= 10000

\* the step is the idle check at the end of loop()
IsIdleCheck == pc = "idle" /\ pc' = "updateFrame"

\* the step brings no input: no packet is decoded, isPushed is not true
NoInput == received' = received /\ triggers' = triggers

\* C1.  Idle controller: an iteration of loop() that ends (its idle check
\* runs) when now - lastActivity >= 10000 ms leaves both treads at exactly 0,
\* and from then on every step keeps them at 0 for as long as the
\* last-activity timestamp is not reset.
C1_IdleTreadsNeutral ==
  [][ /\ (IsIdleCheck /\ IdleNow => TreadsNeutral')
      /\ (IdleNow /\ TreadsNeutral /\ millisIdleStart' = millisIdleStart
            => TreadsNeutral') ]_vars

\* A stick packet had set the treads to a non-neutral value, and a later
\* iteration ended Idle with both treads at 0.
C1_Witness ==
  /\ held # <<>> /\ held # <<0, 0>>
  /\ IdleNow /\ pc = "updateFrame" /\ TreadsNeutral

\* The treads hold the non-neutral values of the last type 2 packet, which
\* no input followed
DirectSetActive ==
  /\ held # <<>> /\ held # <<0, 0>>
  /\ <<Left, Right>> = held

IsTick == pc = "updateFrame" /\ pc' = "audio"

\* the step decodes a packet, decoded', and dispatches it
IsHandling == pc = "ir" /\ received' = received + 1

\* the step decodes and dispatches packet
IsHandled(packet) ==
  pc = "ir" /\ received' = received + 1 /\ decoded' = packet

Active(c) == Head(chan[c].animationQueue)

Elapsed(c) == now - chan[c].millisStart

\* the tick completed the active segment of c: value at the target, popped
Completed(c) ==
  /\ chan'[c].value_ = Active(c).value
  /\ chan'[c].animationQueue = Tail(chan[c].animationQueue)

\* C3 as claimed.  A segment of duration 0 (not a Hold) at the head of a
\* queue is completed by the next tick, whatever the time elapsed since its
\* baseline (0 included), and no tick writes a value that is no number.
C3_ZeroDurationCompletes ==
  [][ IsTick =>
        \A c \in Channels :
          /\ ( /\ chan[c].animationQueue # <<>>
               /\ Active(c).type # "Constant"
               /\ Active(c).millisDuration = 0 ) => Completed(c)
          /\ ~IsNaN(chan'[c].value_) ]_vars

\* C4 as claimed.  A tick that finds a LinearToOver(target, d) segment at
\* the head of a queue with elapsed >= d sets the value to target exactly
\* and pops the segment.
C4_LinearToOverSnaps ==
  [][ IsTick =>
        \A c \in Channels :
          ( /\ chan[c].animationQueue # <<>>
            /\ Active(c).type = "LinearToOver"
            /\ Elapsed(c) >= Active(c).millisDuration ) => Completed(c) ]_vars

\* |clamp(v + delta, 0, 1) - v|, for numbers v and delta
C5_Change(v, delta) ==
  LET target == IF v + delta < 0 THEN 0
                ELSE IF v + delta > Unit THEN Unit ELSE v + delta
  IN  IF target < v THEN v - target ELSE target - v

\* the arms on which a type 3 packet enqueues LinearBy(amount, 100)
ArmsMoved(packet) ==
  IF moveAmount(Normalize(packet.code[4])) = 0 THEN {}
  ELSE {a \in {"leftArm"} : moveLeft(Normalize(packet.code[3]))}
         \cup {a \in {"rightArm"} : moveRight(Normalize(packet.code[3]))}

IsRightJoystick(packet) ==
  packet.protocol \in {"NEC2", "ONKYO"} /\ packet.code[1] = 3

\* C5.  LinearBy(delta, d) enqueued on a channel of value v with
\* |clamp(v + delta, 0, 1) - v| <= 0.05 is dropped: the channel's queue and
\* its value are after the call what they were before, the queue being
\* empty or not.
C5_DroppedLinearByIsNoOp ==
  [][ LET packet == decoded' IN
        ( /\ IsHandling /\ IsRightJoystick(packet)
          /\ now - millisLastArmMove >= 500 )
        => \A a \in ArmsMoved(packet) :
             ( /\ ~IsNaN(chan[a].value_)
               /\ C5_Change(chan[a].value_,
                            moveAmount(Normalize(packet.code[4])))
                    <= Frac(5, 100) )
             => /\ chan'[a].animationQueue = chan[a].animationQueue
                /\ chan'[a].value_ = chan[a].value_ ]_vars

\* The left arm is at 0.95, half way through a queued LinearToAt, and a
\* stick packet has just asked for LinearBy(+0.1): the change would be
\* exactly 0.05 and the queue still holds the LinearToAt alone.
C5_Witness ==
  /\ pc = "idle" /\ IsRightJoystick(decoded)
  /\ millisLastArmMove = now
  /\ "leftArm" \in ArmsMoved(decoded)
  /\ moveAmount(Normalize(decoded.code[4])) = Frac(1, 10)
  /\ chan["leftArm"].value_ = Frac(95, 100)
  /\ Len(chan["leftArm"].animationQueue) = 1
  /\ chan["leftArm"].animationQueue[1].type = "LinearToAt"

\* The Roku keys of SpecAnim that enqueue LinearToAt(target, 0.0005) on the
\* head: Home (lookStraight) and Rewind (lookLeft)
C6_Keys ==
  { [packet |-> Packet("NEC", 252, 3, 199, 234), target |-> Frac(1, 2)],
    [packet |-> Packet("NEC", 203, 52, 199, 234), target |-> 0] }

C6_Distance(k) ==
  IF k.target < chan["head"].value_ THEN chan["head"].value_ - k.target
  ELSE k.target - chan["head"].value_

\* the segment the step appended to the head's queue
C6_Stored == chan'["head"].animationQueue[Len(chan'["head"].animationQueue)]

C6_Appended(k) ==
  /\ Len(chan'["head"].animationQueue) = Len(chan["head"].animationQueue) + 1
  /\ C6_Stored.type = "LinearToAt"
  /\ C6_Stored.value = k.target

\* C6 as claimed.  LinearToAt(target, speed) enqueued at a value v0 (a
\* number) stores a segment of target target and of duration
\* |target - v0| / speed: duration * speed = |target - v0|, with
\* speed = 5/10000 per ms.
C6_DurationExact ==
  [][ \A k \in C6_Keys :
        IsHandled(k.packet) /\ ~IsNaN(chan["head"].value_)
        => /\ C6_Appended(k)
           /\ C6_Stored.millisDuration * 5 * Unit = C6_Distance(k) * 10000
    ]_vars

\* C6 amended.  The stored duration is |target - v0| / speed truncated to
\* whole milliseconds: duration <= |target - v0| / speed < duration + 1.
\* When v0 is no number the duration is whatever the conversion gives.
C6_DurationTruncated ==
  [][ \A k \in C6_Keys :
        IsHandled(k.packet)
        => /\ C6_Appended(k)
           /\ IF IsNaN(chan["head"].value_)
              THEN C6_Stored.millisDuration \in UndefinedDurations
              ELSE /\ C6_Stored.millisDuration * 5 * Unit
                        <= C6_Distance(k) * 10000
                   /\ C6_Distance(k) * 10000
                        < (C6_Stored.millisDuration + 1) * 5 * Unit ]_vars

\* lookLeft was enqueued while lookAround moved the head: from 3/7 the
\* quotient is 857.14 ms and the stored duration is 857.
C6_Witness ==
  /\ pc = "idle" /\ decoded = Packet("NEC", 203, 52, 199, 234)
  /\ Len(chan["head"].animationQueue) = 4
  /\ chan["head"].animationQueue[4].type = "LinearToAt"
  /\ chan["head"].animationQueue[4].millisDuration = 857
  /\ chan["head"].value_ * 10000 # 857 * 5 * Unit

\* The normalized coordinate of a stick byte is C7_Num(raw) / 255
C7_Num(raw) == 2 * raw - 255

C7_Sign(n) == IF n >= 0 THEN 1 ELSE 0 - 1

C7_Abs(n) == IF n < 0 THEN 0 - n ELSE n

C7_Max(a, b) == IF a >= b THEN a ELSE b

\* left and right of the claim, as numerators over 255
C7_Left(nx, ny) ==
  IF C7_Sign(nx) = C7_Sign(ny)
  THEN C7_Sign(ny) * C7_Max(C7_Abs(nx), C7_Abs(ny))
  ELSE C7_Sign(ny) * (C7_Abs(ny) - C7_Abs(nx))

C7_Right(nx, ny) ==
  IF C7_Sign(nx) = C7_Sign(ny)
  THEN C7_Sign(ny) * (C7_Abs(ny) - C7_Abs(nx))
  ELSE C7_Sign(ny) * C7_Max(C7_Abs(nx), C7_Abs(ny))

\* C7.  Differential drive: a type 2 packet writes to the treads the values
\* left = sy max(|x|,|y|), right = sy (|y| - |x|) when sign(x) = sign(y),
\* and right = sy max(|x|,|y|), left = sy (|y| - |x|) otherwise, sign(0)
\* being +1; and the mapping takes (0,1) to (1,1), (1,1) to (1,0), (-1,1)
\* to (0,1) and (0,-1) to (-1,-1).
C7_DriveMapping ==
  [][ /\ LET packet == decoded' IN
           IsHandling /\ IsLeftJoystick(packet)
           => /\ Left' * 255
                   = C7_Left(C7_Num(packet.code[3]), C7_Num(packet.code[4]))
                       * Unit
              /\ Right' * 255
                   = C7_Right(C7_Num(packet.code[3]), C7_Num(packet.code[4]))
                       * Unit
      /\ <<TreadLeft(0, Unit), TreadRight(0, Unit)>> = <<Unit, Unit>>
      /\ <<TreadLeft(Unit, Unit), TreadRight(Unit, Unit)>> = <<Unit, 0>>
      /\ <<TreadLeft(0 - Unit, Unit), TreadRight(0 - Unit, Unit)>>
           = <<0, Unit>>
      /\ <<TreadLeft(0, 0 - Unit), TreadRight(0, 0 - Unit)>>
           = <<0 - Unit, 0 - Unit>> ]_vars

\* The stick at (-1, 1), bytes (0, 255), has just set the treads to (0, 1).
C7_Witness ==
  /\ pc = "idle" /\ decoded = Packet("ONKYO", 2, 0, 0, 255)
  /\ Left = 0 /\ Right = Unit

\* The step of the claim for the byte yRaw: y = (2 yRaw - 255) / 255
C8_Step(yRaw) ==
  LET n == 2 * yRaw - 255
      a == IF n < 0 THEN 0 - n ELSE n
      sign == IF n >= 0 THEN 1 ELSE 0 - 1
  IN  IF 100 * a > 95 * 255 THEN sign * Frac(2, 10)
      ELSE IF 10 * a > 255 THEN sign * Frac(1, 10)
      ELSE 0

\* x <= 0.5 and x >= -0.5 for the byte xRaw
C8_OnLeft(xRaw) == 2 * (2 * xRaw - 255) <= 255

C8_OnRight(xRaw) == 2 * (2 * xRaw - 255) >= 0 - 255

\* arm a after LinearBy(step, 100) was enqueued on it if moved, else as it was
C8_Arm(a, moved, step) ==
  IF step # 0 /\ moved
  THEN queueAnimation(chan[a], linearBy(step, 100), now, 0)
  ELSE chan[a]

\* C8.  Arm mapping: a type 3 packet that passes the rate limit enqueues
\* LinearBy(step, 100 ms) on the left arm iff step # 0 and x <= 0.5, and on
\* the right arm iff step # 0 and x >= -0.5, with step = 0.2 sign(y) for
\* |y| > 0.95, 0.1 sign(y) for 0.1 < |y| <= 0.95, and 0 for |y| <= 0.1;
\* (0, 1.0) steps both arms by +0.2 and (0, 0.05) moves nothing.
C8_ArmMapping ==
  [][ /\ LET packet == decoded' IN
           ( /\ IsHandling /\ IsRightJoystick(packet)
             /\ now - millisLastArmMove >= 500 )
           => /\ chan'["leftArm"] =
                   C8_Arm("leftArm", C8_OnLeft(packet.code[3]),
                          C8_Step(packet.code[4]))
              /\ chan'["rightArm"] =
                   C8_Arm("rightArm", C8_OnRight(packet.code[3]),
                          C8_Step(packet.code[4]))
      /\ moveAmount(Unit) = Frac(2, 10) /\ moveLeft(0) /\ moveRight(0)
      /\ moveAmount(Frac(5, 100)) = 0 ]_vars

\* The stick pushed left and slightly down, bytes (63, 114): LinearBy(-0.1)
\* was enqueued on the left arm behind the LinearToAt of leftArmUp, towards
\* 0.5 from the 0.6 the arm had reached, and the right arm was left alone.
C8_Witness ==
  /\ pc = "idle" /\ decoded = Packet("NEC2", 3, 0, 63, 114)
  /\ millisLastArmMove = now
  /\ Len(chan["leftArm"].animationQueue) = 2
  /\ chan["leftArm"].animationQueue[2] =
       [type |-> "LinearBy", millisDuration |-> 100, value |-> Frac(5, 10)]
  /\ chan["rightArm"].animationQueue = <<>>

\* C9.  Arm rate limit: a type 3 packet decoded less than 500 ms after the
\* last issued arm move changes neither arm and issues nothing, and a packet
\* that issues an arm move comes at least 500 ms after the last one issued.
C9_ArmRateLimit ==
  [][ LET packet == decoded' IN
        IsHandling /\ IsRightJoystick(packet)
        => /\ now - millisLastArmMove < 500
                => /\ chan'["leftArm"] = chan["leftArm"]
                   /\ chan'["rightArm"] = chan["rightArm"]
                   /\ millisLastArmMove' = millisLastArmMove
           /\ millisLastArmMove' # millisLastArmMove
                => /\ millisLastArmMove' = now
                   /\ now - millisLastArmMove >= 500 ]_vars

\* Two packets that ask for a move, 100 ms apart: the second one, just
\* handled, enqueued nothing.
C9_Witness ==
  /\ pc = "idle" /\ IsRightJoystick(decoded) /\ received = 2
  /\ ArmsMoved(decoded) = {"leftArm", "rightArm"}
  /\ millisLastArmMove = 500 /\ now = 600
  /\ Len(chan["leftArm"].animationQueue) <= 1
  /\ Len(chan["rightArm"].animationQueue) <= 1

\* isPushed returned true while press i held the button down
Triggered(i) == \E k \in 1..Len(triggers) : triggers[k].press = i

\* C10.  Button debounce: of two presses of the button that begin less than
\* 100 ms apart, at most one is reported by isPushed.
C10_Debounce ==
  \A i, j \in 1..Len(presses) :
    i < j /\ presses[j] - presses[i] < 100
    => ~(Triggered(i) /\ Triggered(j))

\* The first press was reported; the second, begun less than 100 ms after
\* it, was seen down by a later scan and not reported.
C10_Witness ==
  /\ Len(presses) = 2 /\ presses[2] - presses[1] < 100
  /\ Triggered(1) /\ ~Triggered(2)
  /\ pin = "LOW" /\ last_ >= presses[2] /\ last_ > triggers[1].at

\* isPushed returned true in this step
IsTrigger == Len(triggers') = Len(triggers) + 1

\* C11.  No repeat-while-held: isPushed returns true only for a press it
\* has not reported yet, with the button seen released since the last
\* report, and after a report the button counts as released again only by a
\* scan that reads the pin HIGH, however long the button is held.
C11_NoRepeatWhileHeld ==
  [][ /\ IsTrigger
           => /\ released_ /\ ~released_' /\ pin = "LOW"
              /\ ~Triggered(Len(presses))
      /\ ~released_ /\ released_'
           => pc = "button" /\ Scans(now) /\ pin = "HIGH" ]_vars

\* The button is still held by its first press, 200 ms or more after that
\* press was reported, scanned since, and reported once.
C11_Witness ==
  /\ Len(presses) = 1 /\ pin = "LOW" /\ Len(triggers) = 1
  /\ last_ >= triggers[1].at + 200 /\ pc = "ir"

\* phase = elapsed mod 3600, elapsed being the time since the last activity
C12_Phase == (now - millisIdleStart) % 3600

\* 1800 times the value of the claim at a phase
C12_Wave(phase) == IF phase < 1800 THEN 1800 - phase ELSE phase - 1800

C12_Eyes == <<chan["leftEye"].value_, chan["rightEye"].value_>>

\* C12.  Breathing wave: the idle check of an Idle iteration writes to both
\* eyes 1 - phase/1800 for phase < 1800 and -1 + phase/1800 otherwise,
\* phase = elapsed mod 3600; that is 1 at phase 0, and the values of the wave
\* at this phase and at the next one (1799 -> 1800 and 3599 -> 0 included)
\* differ by at most 1/1800.
C12_BreathingWave ==
  [][ IsIdleCheck /\ IdleNow
        => /\ C12_Eyes'[1] * 1800 = C12_Wave(C12_Phase) * Unit
           /\ C12_Eyes'[2] * 1800 = C12_Wave(C12_Phase) * Unit
           /\ C12_Phase = 0 => C12_Eyes' = <<Unit, Unit>>
           /\ LET next == Breathing((C12_Phase + 1) % 3600)
              IN  /\ (C12_Eyes'[1] - next) * 1800 <= Unit
                  /\ (next - C12_Eyes'[1]) * 1800 <= Unit ]_vars

\* The idle check has just run at the end of the wave, phase 3599, and the
\* eyes are at 1799/1800.
C12_Witness ==
  /\ pc = "updateFrame" /\ IdleNow /\ C12_Phase = 3599
  /\ C12_Eyes = <<Frac(1799, 1800), Frac(1799, 1800)>>

\* the valid range of a channel's adapter: [-1, 1] for the treads (BiMotor),
\* [0, 1] for the servos, the LEDs and the eye-tilt motor
C13_Low(c) == IF c \in {"leftTread", "rightTread"} THEN 0 - Unit ELSE 0

C13_InRange(c) ==
  /\ ~IsNaN(chan[c].value_)
  /\ C13_Low(c) <= chan[c].value_ /\ chan[c].value_ <= Unit

\* C13.  In every reachable state the value of each channel lies within the
\* valid range of its adapter.
C13_ValuesInRange == \A c \in Channels : C13_InRange(c)

\* Every value that is a number lies within the valid range of its adapter
C13_NumbersInRange ==
  \A c \in Channels : IsNaN(chan[c].value_) \/ C13_InRange(c)

\* of channel c the step changed nothing but the value
C14_OnlyValue(c) == chan'[c] = [chan[c] EXCEPT !.value_ = chan'[c].value_]

\* the step wrote to the channels of Written by setValue and did nothing
\* else after Before, the data as it was before those writes
C14_DirectSets(Written, Before) ==
  /\ \A c \in Written : C14_OnlyValue(c)
  /\ \A c \in Channels \ Written : chan'[c] = chan[c]
  /\ queue' = queue /\ played' = played
  /\ millisIdleStart' = Before.millisIdleStart

\* C14.  Direct setValue changes only the value of its channel: the tread
\* writes of a type 2 packet (after the decode's reset of the idle count)
\* and the writes of the idle override to the treads and the eyes leave the
\* queue and the baseline of those channels, every other channel, the audio
\* queue and the idle timer as they were.
C14_DirectSetOnlyValue ==
  [][ /\ IsHandling /\ IsLeftJoystick(decoded')
           => C14_DirectSets({"leftTread", "rightTread"},
                             resetIdleCount(Data, now))
      /\ IsIdleCheck /\ IdleNow
           => C14_DirectSets({"leftTread", "rightTread",
                              "leftEye", "rightEye"}, Data) ]_vars

\* A stick packet has just written the treads directly while the animation
\* of forward() was running on them: the queue and the baseline of the left
\* tread are those of the animation.
C14_Witness ==
  /\ pc = "idle" /\ IsLeftJoystick(decoded) /\ held # <<>>
  /\ Left = held[1] /\ Left # 0
  /\ Len(chan["leftTread"].animationQueue) = 1
  /\ chan["leftTread"].millisStart = SetupMillis
  /\ chan["leftTread"].valueStart = 0

\* the step is the tick of the audio sequencer
IsAudioTick == pc = "audio" /\ pc' = "button"

C15_Working == {c \in Channels : chan[c].animationQueue # <<>>}

\* C15.  A tick with work resets the idle timer: the tick of the channels,
\* when some channel has a queued animation, and the tick of the audio
\* sequencer, when its queue is not empty, set the last-activity timestamp
\* to the current time; a channel with an empty queue is left as it was by
\* its tick, and a tick with no queue to work on changes nothing.
C15_WorkResetsIdleTimer ==
  [][ /\ IsTick
           => /\ C15_Working # {} => millisIdleStart' = now
              /\ \A c \in Channels \ C15_Working : chan'[c] = chan[c]
              /\ C15_Working = {} => UNCHANGED data
      /\ IsAudioTick
           => /\ queue # <<>> => millisIdleStart' = now
              /\ queue = <<>> => UNCHANGED data ]_vars

\* The one packet so far queued a delay 100 ms ago; the audio sequencer has
\* just ticked with the delay still at the head of its queue, and the
\* last-activity timestamp is the time of that tick.
C15_Witness ==
  /\ pc = "button" /\ received = 1 /\ queue # <<>>
  /\ Head(queue).tag = "Delay" /\ Head(queue).millisStart + 100 = now
  /\ millisIdleStart = now
  /\ \A c \in Channels : chan[c].animationQueue = <<>>

C16_IsPlay(entry) == entry.tag = "Play"

\* the tracks of the Play entries of q, in the order of q
C16_Tracks(q) ==
  LET plays == SelectSeq(q, C16_IsPlay)
  IN  [i \in 1..Len(plays) |-> plays[i].index]

\* the tracks played so far followed by those still queued
C16_Program == played \o C16_Tracks(queue)

C16_IsPrefix(s, t) == Len(s) <= Len(t) /\ SubSeq(t, 1, Len(s)) = s

\* C16.  The audio queue is processed in enqueue order: an entry leaves the
\* queue only from its head and only in a tick of the sequencer, entries
\* are added only behind the queued ones, a play command is issued only by
\* a tick with a Play entry at the head, which issues it once and pops the
\* entry in that tick, and the tracks played followed by the tracks queued
\* only ever grow at the end, so that the tracks are played in the order
\* their Play entries were enqueued.
C16_AudioInOrder ==
  [][ /\ IF IsAudioTick /\ queue # <<>>
         THEN IF Head(queue).tag = "Play"
              THEN /\ played' = Append(played, Head(queue).index)
                   /\ queue' = Tail(queue)
              ELSE /\ played' = played
                   /\ queue' \in {queue, Tail(queue)}
         ELSE played' = played /\ C16_IsPrefix(queue, queue')
      /\ C16_IsPrefix(C16_Program, C16_Program') ]_vars

\* Play/Pause and then Vol Up queued a delay and the tracks 3 and 2; both
\* were played, in that order, after the track 2 of setup().
C16_Witness ==
  /\ played = <<2, 3, 2>> /\ queue = <<>> /\ received = 2
  /\ decoded = NoPacket /\ pc = "button"

\* a discrete-remote packet whose code is not in the table, or a
\* custom-protocol packet whose type byte is not 1, 2 or 3
C17_Unrecognised(packet) ==
  \/ packet.protocol = "NEC" /\ packet.code \notin RokuCodes
  \/ packet.protocol \in {"NEC2", "ONKYO"} /\ packet.code[1] \notin {1, 2, 3}

\* C17.  Unrecognised input is a no-op on the actuators: handling such a
\* packet leaves the value and the animation queue of every channel and the
\* audio queue unchanged, and loop() goes on to its idle check as after any
\* packet.
C17_UnrecognisedIsNoOp ==
  [][ IsHandling /\ C17_Unrecognised(decoded')
        => /\ chan' = chan
           /\ queue' = queue /\ played' = played
           /\ pc' = "idle" ]_vars

\* A custom packet of type 4 has just been handled while the animations and
\* the audio delay of demo() were queued.
C17_Witness ==
  /\ pc = "idle" /\ decoded = Packet("NEC2", 4, 0, 255, 255)
  /\ received = 2 /\ Len(queue) = 2
  /\ Len(chan["head"].animationQueue) >= 4
  /\ chan["leftEye"].animationQueue # <<>>

\* duty = floor(255 * magnitude), magnitude a non-negative number
C18_IsDuty(duty, magnitude) ==
  duty * Unit <= 255 * magnitude /\ 255 * magnitude < (duty + 1) * Unit

\* the outputs <<first, second>> the claim allows for the value v
C18_Allowed(v, out) ==
  /\ out[1] = 0 \/ out[2] = 0
  /\ 0 - Unit < 10 * v /\ 10 * v < Unit => out = <<0, 0>>
  /\ 10 * v >= Unit => out[1] = 0 /\ C18_IsDuty(out[2], v)
  /\ 10 * v <= 0 - Unit => out[2] = 0 /\ C18_IsDuty(out[1], 0 - v)

\* C18.  H-bridge adapter: the two PWM outputs of each tread are never both
\* non-zero; both are 0 for |v| < 0.1, only the second is driven, with duty
\* floor(255 v), for v >= 0.1, and only the first, with duty floor(255 |v|),
\* for v <= -0.1; so at 0.1 and -0.1 the duty is 25 and at 1 it is 255.
C18_HBridgeOutputs ==
  /\ \A c \in {"leftTread", "rightTread"} :
       \A out \in BiMotorOutputs(chan[c].value_) :
         ~IsNaN(chan[c].value_) /\ C18_Allowed(chan[c].value_, out)
  /\ BiMotorOutputs(Frac(1, 10)) = { <<0, 25>> }
  /\ BiMotorOutputs(0 - Frac(1, 10)) = { <<25, 0>> }
  /\ BiMotorOutputs(Unit) = { <<0, 255>> }

\* The stick at x = -1, y = 27/255, bytes (0, 141), has set the left tread
\* to -228/255, first line at duty 228, and the right tread to 1, second
\* line at duty 255.
C18_Witness ==
  /\ pc = "idle" /\ decoded = Packet("NEC2", 2, 0, 0, 141)
  /\ BiMotorOutputs(Left) = { <<228, 0>> }
  /\ BiMotorOutputs(Right) = { <<0, 255>> }

\* the data once the breathing value and the last-activity timestamp are
\* reset, nothing being enqueued or written yet
C19_Reset ==
  [Data EXCEPT !.breathingValue = Unit, !.millisIdleStart = now]

\* C19.  Leaving Idle: when the button triggers or a packet is decoded
\* while the controller is Idle, the breathing value is 1 and the
\* last-activity timestamp is the current time at the end of the step, and
\* the step is the dispatched action run from the state in which both are
\* already reset.
C19_ResetBeforeDispatch ==
  [][ /\ IsHandling /\ IdleNow
           => /\ breathingValue' = Unit /\ millisIdleStart' = now
              /\ \E ub \in Undefined :
                   Data' = Dispatch(C19_Reset, decoded'.protocol,
                                    decoded'.code, now, ub)
      /\ IsTrigger /\ IdleNow
           => /\ breathingValue' = Unit /\ millisIdleStart' = now
              /\ \E ub \in Undefined : Data' = demo(C19_Reset, now, ub)
    ]_vars

\* The controller was Idle at 10400 ms, the eyes breathing at 1000/1800,
\* when the button triggered: the breathing value is 1 again, the demo is
\* queued and the eyes still show the last breath.
C19_Witness ==
  /\ pc = "updateFrame" /\ Len(triggers) = 1 /\ triggers[1].at = now
  /\ now = 10500 /\ millisIdleStart = now /\ breathingValue = Unit
  /\ chan["leftEye"].value_ = Frac(1000, 1800)
  /\ Len(chan["leftEye"].animationQueue) = 9

IsButtonPacket(packet) ==
  packet.protocol \in {"NEC2", "ONKYO"} /\ packet.code[1] = 1

\* C20.  A custom packet of type 1 dispatches demo whatever its payload: the
\* data after handling it is the data after handling, from the same state
\* at the same time, the type 1 packet of any other payload and reserved
\* byte, and it is the data after demo().
C20_PayloadIgnored ==
  [][ IsHandling /\ IsButtonPacket(decoded')
        => \E ub \in Undefined :
             /\ \A p \in Payloads :
                  Data' = Dispatch(Data, decoded'.protocol,
                                   <<1, p[1], p[2], p[3]>>, now, ub)
             /\ Data' = demo(resetIdleCount(Data, now), now, ub) ]_vars

\* A type 1 packet with reserved byte 255 and payload (255, 127) has just
\* been handled, and the demo is queued.
C20_Witness ==
  /\ pc = "idle" /\ decoded = Packet("ONKYO", 1, 255, 255, 127)
  /\ Len(chan["head"].animationQueue) = 5
  /\ Len(chan["rightEye"].animationQueue) = 9
  /\ Len(queue) = 2

IsCustomPacket(packet) == packet.protocol \in {"NEC2", "ONKYO"}

\* C21.  NEC2 and ONKYO are equivalent: the data after handling a packet
\* under one of them is the data after handling, from the same state, the
\* same code under the other, it is the data of the custom decode path,
\* and a code of the Roku table under them runs no Roku action (its type
\* byte being none of 1, 2, 3, only the idle count is reset).
C21_ProtocolsEquivalent ==
  [][ IsHandling /\ IsCustomPacket(decoded')
        => \E ub \in Undefined :
             /\ Data' = Dispatch(Data, "NEC2", decoded'.code, now, ub)
             /\ Data' = Dispatch(Data, "ONKYO", decoded'.code, now, ub)
             /\ Data' = Custom(resetIdleCount(Data, now), decoded'.code,
                               now, ub)
             /\ decoded'.code \in RokuCodes
                  => Data' = resetIdleCount(Data, now) ]_vars

\* The code of Roku Power has just been handled under ONKYO, 100 ms after
\* setup(): nothing of demo() is queued and the idle count is reset.
C21_Witness ==
  /\ pc = "idle" /\ decoded = Packet("ONKYO", 232, 23, 199, 234)
  /\ received = 1 /\ now = 500 /\ millisIdleStart = now
  /\ queue = <<>> /\ \A c \in Channels : chan[c].animationQueue = <<>>

\* what the claim says of the tick of channel c, whose queue is not empty
C22_TickOf(c) ==
  IF Elapsed(c) >= Active(c).millisDuration
  THEN /\ chan'[c].animationQueue = Tail(chan[c].animationQueue)
       /\ IF Tail(chan[c].animationQueue) # <<>>
          THEN /\ chan'[c].millisStart = now
               /\ chan'[c].valueStart = chan'[c].value_
          ELSE chan'[c].millisStart = 0
  ELSE /\ chan'[c].animationQueue = chan[c].animationQueue
       /\ chan'[c].millisStart = chan[c].millisStart
       /\ chan'[c].valueStart = chan[c].valueStart

\* C22.  A tick at which the active segment of a channel has
\* elapsed >= duration pops exactly that segment and sets the baseline to
\* (now, the value after the snap) if a segment follows, or clears the start
\* time to 0 if none does; any other tick leaves the queue and the baseline
\* of the channel unchanged.
C22_CompletionMovesBaseline ==
  [][ IsTick => \A c \in C15_Working : C22_TickOf(c) ]_vars

\* The same for the ticks whose segment has a duration above 0 or whose
\* elapsed time is above 0
C22_ExceptZeroOverZero ==
  [][ IsTick
        => \A c \in C15_Working :
             Active(c).millisDuration > 0 \/ Elapsed(c) > 0
             => C22_TickOf(c) ]_vars

C23_Arms == {"leftArm", "rightArm"}

\* clamp(v + delta, 0, 1)
C23_Target(v, delta) ==
  IF v + delta < 0 THEN 0 ELSE IF v + delta > Unit THEN Unit ELSE v + delta

C23_By(v, delta) ==
  [type |-> "LinearBy", millisDuration |-> 100, value |-> C23_Target(v, delta)]

\* the queue of arm a after LinearBy(delta, 100) was enqueued twice in a row
C23_Twice(a, delta) ==
  queueAnimation(queueAnimation(chan[a], linearBy(delta, 100), now, 0),
                 linearBy(delta, 100), now, 0).animationQueue

C23_Last(a) == chan'[a].animationQueue[Len(chan'[a].animationQueue)]

\* C23.  LinearBy and LinearToAt are resolved once, when enqueued, against
\* the value v the channel has at that moment, the queue being empty or not:
\* a LinearBy(delta, 100) that is not dropped is stored with the target
\* clamp(v + delta, 0, 1), two of them enqueued back to back are stored with
\* that same target, a LinearToAt(1, 0.001/ms) is stored with the whole
\* milliseconds of |1 - v| / 0.001, and a tick leaves the stored segments as
\* they are: it removes the head or nothing.
C23_ResolvedAtEnqueue ==
  [][ /\ ( /\ IsHandling /\ IsRightJoystick(decoded')
           /\ now - millisLastArmMove >= 500 )
         => \A a \in ArmsMoved(decoded') :
              LET v == chan[a].value_
                  delta == moveAmount(Normalize(decoded'.code[4]))
              IN  ~IsNaN(v) /\ C5_Change(v, delta) > Frac(5, 100)
                  => chan'[a].animationQueue =
                       Append(chan[a].animationQueue, C23_By(v, delta))
      /\ \A a \in C23_Arms :
           \A delta \in {Frac(1, 10), 0 - Frac(1, 10),
                         Frac(2, 10), 0 - Frac(2, 10)} :
             LET v == chan[a].value_
             IN  ~IsNaN(v) /\ C5_Change(v, delta) > Frac(5, 100)
                 => C23_Twice(a, delta) =
                      chan[a].animationQueue
                        \o <<C23_By(v, delta), C23_By(v, delta)>>
      /\ IsHandled(Packet("NEC", 247, 8, 199, 234))
           /\ ~IsNaN(chan["leftArm"].value_)
         => LET v == chan["leftArm"].value_
                q == chan["leftArm"].animationQueue
                d == C23_Last("leftArm").millisDuration
            IN  /\ Len(chan'["leftArm"].animationQueue) = Len(q) + 1
                /\ SubSeq(chan'["leftArm"].animationQueue, 1, Len(q)) = q
                /\ C23_Last("leftArm").type = "LinearToAt"
                /\ C23_Last("leftArm").value = Unit
                /\ d * Unit <= (Unit - v) * 1000
                /\ (Unit - v) * 1000 < (d + 1) * Unit
      /\ IsTick
         => \A a \in C23_Arms :
              \/ chan'[a].animationQueue = chan[a].animationQueue
              \/ /\ chan[a].animationQueue # <<>>
                 /\ chan'[a].animationQueue = Tail(chan[a].animationQueue)
    ]_vars

\* Vudu at 400 ms, the stick at (63, 114) at 1000 ms with the arm at 0.6:
\* the step of -0.1 was stored with the target 0.5; the rise has completed at
\* 1 and the step, now active, runs from 1 to 0.5 (0.75 half-way).
C23_Witness ==
  /\ now = 1450 /\ pc = "audio" /\ millisLastArmMove = 1000
  /\ chan["leftArm"].animationQueue =
       <<[type |-> "LinearBy", millisDuration |-> 100, value |-> Frac(5, 10)]>>
  /\ chan["leftArm"].valueStart = Unit
  /\ chan["leftArm"].millisStart = 1400
  /\ chan["leftArm"].value_ = Frac(75, 100)

\* v lies between a and b
C24_Between(v, a, b) == (a <= v /\ v <= b) \/ (b <= v /\ v <= a)

\* the tick removed the head of c, complete: its duration has elapsed and,
\* unless a Hold, the value is at its target
C24_HeadCompleted(c) ==
  /\ chan[c].animationQueue # <<>>
  /\ chan'[c].animationQueue = Tail(chan[c].animationQueue)
  /\ Elapsed(c) >= Active(c).millisDuration
  /\ Active(c).type = "Constant" \/ chan'[c].value_ = Active(c).value

\* the step kept every queued segment of c, in place, and may have appended
C24_Extended(c) ==
  /\ Len(chan'[c].animationQueue) >= Len(chan[c].animationQueue)
  /\ SubSeq(chan'[c].animationQueue, 1, Len(chan[c].animationQueue))
       = chan[c].animationQueue

\* C24.  No cancellation: a tick leaves the queue of a channel as it is or
\* removes its head, complete, and then writes the head's target; a tick
\* that removes nothing writes a value between the baseline and the head's
\* target (a Hold: no value); every other step (a decoded command, a direct
\* write of the stick, the idle override, the button) keeps every queued
\* segment as it is and in place, appending at most.
C24_NoCancellation ==
  [][ \A c \in Channels :
        IF IsTick
        THEN \/ C24_HeadCompleted(c)
             \/ /\ chan'[c].animationQueue = chan[c].animationQueue
                /\ chan[c].animationQueue = <<>>
                     => chan'[c].value_ = chan[c].value_
                /\ chan[c].animationQueue # <<>>
                     => IF Active(c).type = "Constant"
                        THEN chan'[c].value_ = chan[c].value_
                        ELSE \/ IsNaN(chan'[c].value_)
                             \/ C24_Between(chan'[c].value_,
                                            chan[c].valueStart, Active(c).value)
        ELSE C24_Extended(c) ]_vars

\* Roku Repeat was decoded right after setup() and the iteration ended
\* 10000 ms later: the idle override wrote the breathing value to the eyes,
\* and the seven segments of blinkTwice are still queued on them.
C24_Witness ==
  /\ pc = "updateFrame" /\ now = 10400 /\ millisIdleStart = SetupMillis
  /\ Len(chan["leftEye"].animationQueue) = 7
  /\ chan["leftEye"].animationQueue[1] = linearToOver(0, 20)
  /\ chan["leftEye"].value_ = breathingValue
  /\ breathingValue # Unit

C25_QueuesEmpty ==
  /\ \A c \in Channels : chan[c].animationQueue = <<>>
  /\ queue = <<>>

\* C25.  With iterations of loop() of less than 10000 ms, an idle check that
\* runs when now - lastActivity >= 10000 ms finds the animation queue of
\* every channel and the audio queue empty: the idle override writes no
\* channel that has a queued animation.
C25_IdleMeansQueuesEmpty ==
  [][ IsIdleCheck /\ IdleNow => C25_QueuesEmpty ]_vars

\* A stick packet at 400 ms; the iteration that began at 500 ms took 9999 ms
\* and its idle check, 10099 ms after the packet, has run the idle override
\* with every queue empty.
C25_Witness ==
  /\ pc = "updateFrame" /\ now = 10499 /\ received = 1
  /\ millisIdleStart = SetupMillis
  /\ breathingValue # Unit /\ chan["leftEye"].value_ = breathingValue
  /\ TreadsNeutral /\ held # <<0, 0>> /\ held # <<>>
  /\ C25_QueuesEmpty

\* C26.  Quiescence: with the loop running and time advancing, once input
\* has ceased every animation queue and the audio queue become empty, the
\* controller turns Idle (now - lastActivity >= 10000 ms) and both treads
\* are at 0, and this lasts.
C26_Quiescence == <>[](C25_QueuesEmpty /\ IdleNow /\ TreadsNeutral)

\* The button was pressed (demo) and a stick packet then set the treads; the
\* demo sequence has run to its end (track 2 played), the controller is
\* Idle and the treads are at 0.
C26_Witness ==
  /\ Len(triggers) = 1 /\ received = 1 /\ held # <<>> /\ held # <<0, 0>>
  /\ played = <<2, 2>>
  /\ C25_QueuesEmpty /\ IdleNow /\ TreadsNeutral
  /\ breathingValue # Unit

C27_Treads == <<"leftTread", "rightTread">>

\* duration * (v - valueStart) is (target - valueStart) * elapsed, to the
\* rounding of v
C27_Interpolated(c, v) ==
  LET exact == (Active(c).value - chan[c].valueStart) * Elapsed(c)
      got == Active(c).millisDuration * (v - chan[c].valueStart)
  IN  /\ got - exact < Active(c).millisDuration
      /\ exact - got < Active(c).millisDuration

\* C27.  A direct write does not survive an active interpolating segment:
\* the stick's write to a tread with a queued animation sets the value and
\* leaves queue and baseline as they are, and every tick of a channel whose
\* head is an interpolating segment of a duration above 0 writes the target
\* (elapsed >= duration) or the value interpolated from the baseline to the
\* target, whatever the value was before the tick.
C27_DirectWriteOverwritten ==
  [][ /\ IsHandling /\ IsLeftJoystick(decoded')
         => \A i \in {1, 2} :
              /\ chan'[C27_Treads[i]] =
                   [chan[C27_Treads[i]] EXCEPT !.value_ = held'[i]]
      /\ IsTick
         => \A c \in C15_Working :
              ( /\ Active(c).type # "Constant"
                /\ Active(c).millisDuration > 0
                /\ ~IsNaN(chan[c].valueStart) )
              => IF Elapsed(c) >= Active(c).millisDuration
                 THEN chan'[c].value_ = Active(c).value
                 ELSE C27_Interpolated(c, chan'[c].value_) ]_vars

\* Roku Up at 400 ms (forward: both treads to 1 over 200 ms), the stick at
\* (255, 255) at 500 ms wrote 1 and 0 to the treads; the tick of the next
\* iteration, still at 500 ms, has put both treads back to 0.5.
C27_Witness ==
  /\ pc = "audio" /\ now = 500 /\ received = 2
  /\ held = <<Unit, 0>>
  /\ Left = Frac(1, 2) /\ Right = Frac(1, 2)
  /\ Len(chan["leftTread"].animationQueue) = 1
  /\ Len(chan["rightTread"].animationQueue) = 1

\* C28.  The wait of an audio Delay runs from its enqueue: every entry is
\* appended with the time of the enqueue as its start and is never modified
\* while queued; a tick of the sequencer removes a Delay at the front iff
\* now - start > duration, whenever it came to the front, removes a Play at
\* the front and plays it, and touches no other entry.
C28_DelayFromEnqueue ==
  [][ IF IsAudioTick
      THEN queue # <<>>
           => IF Head(queue).tag = "Delay"
              THEN /\ played' = played
                   /\ IF now - Head(queue).millisStart > Head(queue).duration
                      THEN queue' = Tail(queue)
                      ELSE queue' = queue
              ELSE /\ queue' = Tail(queue)
                   /\ played' = Append(played, Head(queue).index)
      ELSE /\ Len(queue') >= Len(queue)
           /\ SubSeq(queue', 1, Len(queue)) = queue
           /\ \A i \in (Len(queue) + 1)..Len(queue') :
                queue'[i].millisStart = now
           /\ played' = played ]_vars

\* Two demo sequences were queued at 400 ms; at 5401 ms the first Delay, the
\* first Play, the second Delay and the second Play were removed by four
\* consecutive ticks: track 2 was played twice at the same instant.
C28_Witness ==
  /\ now = 5401 /\ pc = "button" /\ received = 2
  /\ played = <<2, 2, 2>>
  /\ queue = <<>>
  /\ millisIdleStart = 5401

\* packet is ignored when decoded now: a code outside the Roku table, a
\* custom type other than 1, 2, 3, a protocol of neither remote, or a type 3
\* packet within 500 ms of the last arm move
C29_Ignored(packet) ==
  \/ C17_Unrecognised(packet)
  \/ packet.protocol \notin {"NEC", "NEC2", "ONKYO"}
  \/ IsRightJoystick(packet) /\ now - millisLastArmMove < 500

\* C29.  Every decoded packet resets the idle count: after the step the
\* last-activity timestamp is the current time and the breathing value is 1
\* if the controller was Idle and unchanged if not; for an ignored packet
\* that is all the step does.
C29_EveryPacketResets ==
  [][ IsHandling
        => /\ millisIdleStart' = now
           /\ breathingValue' = IF IdleNow THEN Unit ELSE breathingValue
           /\ C29_Ignored(decoded')
                => /\ chan' = chan
                   /\ queue' = queue /\ played' = played
                   /\ index' = index
                   /\ millisLastArmMove' = millisLastArmMove ]_vars

\* The right stick moved the arms at 500 ms; the same packet at 950 ms was
\* suppressed by the rate limit and has reset the last-activity timestamp.
C29_Witness ==
  /\ pc = "idle" /\ decoded = Packet("ONKYO", 3, 0, 127, 255)
  /\ received = 2 /\ now = 950
  /\ millisLastArmMove = 500 /\ millisIdleStart = 950
  /\ chan["leftArm"].animationQueue = <<>>
  /\ chan["leftArm"].value_ = Frac(2, 10)

\* The controller was Idle, the eyes breathing, when a packet of a third
\* protocol was decoded: the breathing value is 1 again and the
\* last-activity timestamp is the current time.
C29_WitnessIdle ==
  /\ pc = "idle" /\ decoded = Packet("SONY", 232, 23, 199, 234)
  /\ now = 10500 /\ millisIdleStart = now /\ breathingValue = Unit
  /\ chan["leftEye"].value_ # Unit

C30_Eyes == {"leftEye", "rightEye"}

\* C30.  Leaving Idle does not write the eyes: a packet decoded or a button
\* trigger while the controller is Idle sets the breathing value to 1 and
\* leaves the value of both eyes as it was; and the value of an eye changes
\* only by a tick of its own queued animation or by the idle override.
C30_EyesKeptOnLeavingIdle ==
  [][ /\ (IsHandling \/ IsTrigger) /\ IdleNow
         => /\ breathingValue' = Unit
            /\ \A e \in C30_Eyes : chan'[e].value_ = chan[e].value_
      /\ \A e \in C30_Eyes :
           chan'[e].value_ # chan[e].value_
           => \/ IsTick /\ chan[e].animationQueue # <<>>
              \/ IsIdleCheck /\ IdleNow ]_vars

\* The controller was Idle at 10400 ms, the eyes breathing at 1000/1800; a
\* stick packet at 10500 ms left Idle and its iteration has ended: the
\* breathing value is 1 and both eyes are still at 1000/1800.
C30_Witness ==
  /\ pc = "updateFrame" /\ now = 10500 /\ received = 1
  /\ held # <<>> /\ Left = held[1] /\ Left # 0
  /\ millisIdleStart = now /\ breathingValue = Unit
  /\ chan["leftEye"].value_ = Frac(1000, 1800)
  /\ chan["rightEye"].value_ = Frac(1000, 1800)
  /\ chan["leftEye"].animationQueue = <<>>

\* the time since the last activity
C31_Elapsed == now - millisIdleStart

\* 1800 times the value of the wave at the phase of an elapsed time
C31_Wave(elapsed) ==
  IF elapsed % 3600 < 1800 THEN 1800 - (elapsed % 3600)
  ELSE (elapsed % 3600) - 1800

\* C31.  The breathing phase is counted from the last activity: an idle
\* check that runs Idle writes to both eyes, and to the breathing value, the
\* wave at (now - lastActivity) mod 3600 and leaves the last-activity
\* timestamp as it is; when exactly 10000 ms have elapsed the phase is 2800
\* and the value written is -1 + 2800/1800 = 1000/1800, not 1.
C31_PhaseFromLastActivity ==
  [][ IsIdleCheck /\ IdleNow
        => /\ millisIdleStart' = millisIdleStart
           /\ \A e \in {"leftEye", "rightEye"} :
                /\ chan'[e].value_ * 1800 = C31_Wave(C31_Elapsed) * Unit
                /\ chan'[e].value_ = breathingValue'
                /\ C31_Elapsed = 10000
                     => /\ C31_Elapsed % 3600 = 2800
                        /\ chan'[e].value_ * 1800 = 1000 * Unit
                        /\ chan'[e].value_ # Unit ]_vars

\* A stick packet at 500 ms was the last activity; the idle check at
\* 10500 ms, the first one Idle, has written 1000/1800 to both eyes.
C31_Witness ==
  /\ pc = "updateFrame" /\ now = 10500 /\ received = 1
  /\ millisIdleStart = 500 /\ held # <<>>
  /\ chan["leftEye"].value_ = Frac(1000, 1800)
  /\ chan["rightEye"].value_ = Frac(1000, 1800)
  /\ breathingValue = Frac(1000, 1800)

\* |(2 raw - 255) / 255| < 0.1 for the stick byte raw
C32_Near(raw) == 10 * C7_Abs(C7_Num(raw)) < 255

\* |v| < 0.1
C32_Small(v) == 0 - Unit < 10 * v /\ 10 * v < Unit

\* C32.  Neutral stick stops the motors: a type 2 packet with |x| < 0.1 and
\* |y| < 0.1 (the bytes 115 to 140, the centre 127 and 128 among them)
\* writes to both treads values of magnitude below 0.1, and both outputs of
\* both H-bridges are 0 for the values written.
C32_NeutralStickStops ==
  [][ ( /\ IsHandling /\ IsLeftJoystick(decoded')
        /\ C32_Near(decoded'.code[3]) /\ C32_Near(decoded'.code[4]) )
      => /\ C32_Small(Left') /\ C32_Small(Right')
         /\ BiMotorOutputs(Left') = { <<0, 0>> }
         /\ BiMotorOutputs(Right') = { <<0, 0>> }
         /\ {127, 128} \subseteq {raw \in 0..255 : C32_Near(raw)} ]_vars

\* The stick at the bytes (128, 140), x = 1/255 and y = 25/255, has set the
\* treads to 25/255 and 24/255: all four outputs are 0.
C32_Witness ==
  /\ pc = "idle" /\ decoded = Packet("NEC2", 2, 0, 128, 140)
  /\ Left * 255 = 25 * Unit /\ Right * 255 = 24 * Unit
  /\ BiMotorOutputs(Left) = { <<0, 0>> }
  /\ BiMotorOutputs(Right) = { <<0, 0>> }

====
